---- MODULE Spec2Model ----
(***************************************************************************)
(* A model of the #[bitfield] expansion of modular-bitfield                *)
(* (impl/src/bitfield.rs): the layout the macro computes for a struct      *)
(* (size, byte length, per-field offsets, compile-time checks) and the     *)
(* behaviour of the code it generates (constructor, byte conversions,      *)
(* primitive conversions, per-field getters and setters).                  *)
(***************************************************************************)
EXTENDS Integers, Sequences, FiniteSets, TLC

(***************************************************************************)
(* Bounds of the model.                                                    *)
(***************************************************************************)
\* the largest number of fields of a struct
MaxFields == 3
\* the largest number of #[skip] / #[bits = N] attributes on a struct's fields
MaxAttrs == 2
\* the largest number of #[skip] attributes on the fields of a struct whose
\* accessors are called
MaxSkips == 1
\* the largest bit size of a struct
MaxBits == 24
\* the largest number of calls made on one bitfield value
MaxOps == 2
\* the largest number of nested metas of a #[skip(..)]
MaxNested == 3

(***************************************************************************)
(* Arithmetic helpers.                                                     *)
(***************************************************************************)
RECURSIVE Pow2(_)
Pow2(n) == IF n = 0 THEN 1 ELSE 2 * Pow2(n - 1)

RECURSIVE SumSeq(_)
SumSeq(s) == IF s = <<>> THEN 0 ELSE Head(s) + SumSeq(Tail(s))

\* x >> n on an unsigned integer
Shr(x, n) == x \div Pow2(n)

\* Option<T>: None is the empty sequence, Some(v) the sequence of v
None == <<>>
Some(v) == <<v>>
IsSome(o) == o # <<>>
Unwrap(o) == o[1]

(***************************************************************************)
(* Specifier types: the types a field can have.  BITS is Specifier::BITS,  *)
(* base the bit size of Specifier::Bytes (and of InOut for the Bn types),  *)
(* invalid the raw values of BITS bits that from_bytes rejects.            *)
(***************************************************************************)
SpecifierB(n) ==
    [name |-> "B", BITS |-> n, base |-> IF n <= 8 THEN 8 ELSE 16, invalid |-> {}]

\* #[derive(BitfieldSpecifier)] #[bits = 2] enum with discriminants 0, 1, 2
SpecifierEnum ==
    [name |-> "E", BITS |-> 2, base |-> 8, invalid |-> {3}]

\* Specifier::into_bytes: InOut -> Result<Bytes, OutOfBounds>
Specifier_into_bytes(ty, value) == [ok |-> TRUE, val |-> value]

\* Specifier::from_bytes: Bytes -> Result<InOut, InvalidBitPattern<Bytes>>
Specifier_from_bytes(ty, raw) ==
    IF raw < Pow2(ty.BITS) /\ raw \notin ty.invalid
    THEN [ok |-> TRUE, val |-> raw]
    ELSE [ok |-> FALSE, val |-> raw]

\* the values of Specifier::InOut
InOut(ty) ==
    IF ty.name = "E"
    THEN (0 .. (Pow2(ty.BITS) - 1)) \ ty.invalid
    ELSE 0 .. (Pow2(ty.base) - 1)

(***************************************************************************)
(* FieldConfig (field_config.rs): skip is None or a SkipWhich, bits is     *)
(* None or the N of #[bits = N].                                           *)
(***************************************************************************)
SkipWhich == {"All", "Getters", "Setters"}

skip_getters(config) == IsSome(config.skip) /\ Unwrap(config.skip) \in {"All", "Getters"}
skip_setters(config) == IsSome(config.skip) /\ Unwrap(config.skip) \in {"All", "Setters"}
skip_getters_and_setters(config) == skip_getters(config) /\ skip_setters(config)

\* FieldConfig::default(), FieldConfig::skip and FieldConfig::bits on a
\* configuration that has no skip and no bits yet
FieldConfig_default == [skip |-> None, bits |-> None]
FieldConfig_skip(config, which) == [config EXCEPT !.skip = Some(which)]
FieldConfig_bits(config, n) == [config EXCEPT !.bits = Some(n)]

(***************************************************************************)
(* The attributes of a field as syn parses them.  An attribute is a record *)
(* with its path ("skip", "bits" or another) and the shape of its meta:    *)
(* "Path" for #[skip], "List" for #[skip(..)] with the nested metas in     *)
(* `nested` ("getters", "setters", another path, or "lit" for what is not  *)
(* a path), "NameValue" for #[bits = N] with the kind of the literal in    *)
(* `lit` and its value in `value`.                                         *)
(***************************************************************************)
Ok(v) == [ok |-> TRUE, val |-> v]
Err == [ok |-> FALSE, val |-> None]

\* the loop over the nested metas of #[skip(..)]: the map `which` when
\* the loop ends, or the error it returns
RECURSIVE extract_skip_nested(_, _)
extract_skip_nested(nested, which) ==
    IF nested = <<>> THEN Ok(which)
    ELSE CASE Head(nested) = "getters" ->
                  IF "Getters" \in which THEN Err
                  ELSE extract_skip_nested(Tail(nested), which \cup {"Getters"})
           [] Head(nested) = "setters" ->
                  IF "Setters" \in which THEN Err
                  ELSE extract_skip_nested(Tail(nested), which \cup {"Setters"})
           [] OTHER -> Err

\* a choice that reads `a || b && c` as `(a || b) && c`
skip_which_or_first(config, which) ==
    IF (which = {} \/ "Getters" \in which) /\ "Setters" \in which
    THEN FieldConfig_skip(config, "All")
    ELSE IF "Getters" \in which THEN FieldConfig_skip(config, "Getters")
    ELSE IF "Setters" \in which THEN FieldConfig_skip(config, "Setters")
    ELSE config

\* the SkipWhich that the map `which` of a #[skip(..)] stands for
skip_which(config, which) ==
    IF which = {} \/ ("Getters" \in which /\ "Setters" \in which)
    THEN FieldConfig_skip(config, "All")
    ELSE IF "Getters" \in which THEN FieldConfig_skip(config, "Getters")
    ELSE IF "Setters" \in which THEN FieldConfig_skip(config, "Setters")
    ELSE config

\* one turn of the loop over the attributes of a field
extract_attr(config, attr) ==
    IF attr.path = "bits"
    THEN IF attr.meta # "NameValue" THEN Err
         ELSE IF attr.lit = "Int" THEN Ok(FieldConfig_bits(config, attr.value))
         ELSE Err
    ELSE IF attr.path = "skip"
    THEN CASE attr.meta = "Path" -> Ok(FieldConfig_skip(config, "All"))
           [] attr.meta = "List" ->
                  LET which == extract_skip_nested(attr.nested, {})
                  IN  IF which.ok THEN Ok(skip_which(config, which.val)) ELSE Err
           [] OTHER -> Err
    ELSE Ok(config)

RECURSIVE extract_attrs(_, _)
extract_attrs(config, attrs) ==
    IF attrs = <<>> THEN Ok(config)
    ELSE LET r == extract_attr(config, Head(attrs))
         IN  IF r.ok THEN extract_attrs(r.val, Tail(attrs)) ELSE Err

\* Extracts the #[bits = N] and #[skip(..)] attributes for a given field.
extract_field_config(field) == extract_attrs(FieldConfig_default, field.attrs)

(***************************************************************************)
(* The layout the macro expands to.                                        *)
(***************************************************************************)
\* the sum of <ty as Specifier>::BITS over all fields, as a list of terms
RECURSIVE generate_bitfield_size_terms(_)
generate_bitfield_size_terms(fields) ==
    IF fields = <<>> THEN <<0>>
    ELSE generate_bitfield_size_terms(SubSeq(fields, 1, Len(fields) - 1))
             \o <<fields[Len(fields)].ty.BITS>>

generate_bitfield_size(item_struct) ==
    SumSeq(generate_bitfield_size_terms(item_struct.fields))

\* (((value - 1) / 8) + 1) * 8 in usize; a constant expression that
\* overflows (0usize - 1) does not compile
Overflows(value) == value = 0

\* a rounding that adds a byte to a size that is a multiple of 8
next_divisible_by_8_floor(value) == ((value \div 8) + 1) * 8

next_divisible_by_8(value) == (((value - 1) \div 8) + 1) * 8

\* the length of the `bytes` array of the generated struct
generate_struct(item_struct) ==
    next_divisible_by_8(generate_bitfield_size(item_struct)) \div 8

\* the length of the array new() builds
generate_constructor(item_struct) ==
    next_divisible_by_8(generate_bitfield_size(item_struct)) \div 8

\* the `size` and `next_divisible_by_8` that from_bytes and into_bytes use
expand_byte_conversion_impls(item_struct) ==
    [size                |-> generate_bitfield_size(item_struct),
     next_divisible_by_8 |-> next_divisible_by_8(generate_bitfield_size(item_struct))]

(***************************************************************************)
(* The compile-time checks the macro emits.  Each is a record naming the   *)
(* check trait of modular_bitfield::private::checks and the numbers the     *)
(* macro hands to it.                                                      *)
(***************************************************************************)
\* the two check traits taken for each other
generate_check_for_filled_swapped(item_struct, config) ==
    {[check |-> IF config.filled THEN "CheckTotalSizeIsNotMultipleOf8"
                                 ELSE "CheckTotalSizeMultipleOf8",
      field |-> 0,
      left  |-> generate_bitfield_size(item_struct) % 8,
      right |-> 0]}

generate_check_for_filled(item_struct, config) ==
    {[check |-> IF config.filled THEN "CheckTotalSizeMultipleOf8"
                                 ELSE "CheckTotalSizeIsNotMultipleOf8",
      field |-> 0,
      left  |-> generate_bitfield_size(item_struct) % 8,
      right |-> 0]}

\* a byte count that is checked only when the filled check passes
expand_optional_bytes_check_after_filled(item_struct, config) ==
    IF IsSome(config.bytes)
         /\ config.filled = (generate_bitfield_size(item_struct) % 8 = 0)
    THEN {[check |-> "assert_eq_size", field |-> 0,
           left  |-> Unwrap(config.bytes),
           right |-> generate_struct(item_struct)]}
    ELSE {}

expand_optional_bytes_check(item_struct, config) ==
    IF IsSome(config.bytes)
    THEN {[check |-> "assert_eq_size", field |-> 0,
           left  |-> Unwrap(config.bytes),
           right |-> generate_struct(item_struct)]}
    ELSE {}

\* From impls whose where-clause is missing: only the type of the array
\* that <uN>::to_le_bytes returns is held against the `bytes` member
expand_repr_from_impls_without_where(item_struct, config) ==
    IF IsSome(config.repr)
    THEN {[check |-> "mismatched_types", field |-> 0,
           left  |-> generate_struct(item_struct),
           right |-> Unwrap(config.repr) \div 8]}
    ELSE {}

\* the where-clause of the two From impls, and the type of the array that
\* <uN>::to_le_bytes returns against the type of the `bytes` member
expand_repr_from_impls_and_checks(item_struct, config) ==
    IF IsSome(config.repr)
    THEN {[check |-> "IsUNCompatible", field |-> 0,
           left  |-> generate_bitfield_size(item_struct),
           right |-> Unwrap(config.repr)],
          [check |-> "mismatched_types", field |-> 0,
           left  |-> generate_struct(item_struct),
           right |-> Unwrap(config.repr) \div 8]}
    ELSE {}

expand_bits_checks_for_field(index, field) ==
    IF IsSome(field.config.bits)
    THEN {[check |-> "BitsCheck", field |-> index,
           left  |-> Unwrap(field.config.bits),
           right |-> field.ty.BITS]}
    ELSE {}

\* whether the compiler rejects an emitted check
CheckFails(c) ==
    CASE c.check = "CheckTotalSizeMultipleOf8"      -> c.left # 0
      [] c.check = "CheckTotalSizeIsNotMultipleOf8" -> c.left = 0
      [] c.check = "assert_eq_size"                 -> c.left # c.right
      [] c.check = "IsUNCompatible"                 -> c.left # c.right
      [] c.check = "mismatched_types"               -> c.left # c.right
      [] c.check = "BitsCheck"                      -> c.left # c.right
      [] c.check = "CheckSpecifierHasAtMost128Bits" -> c.left > c.right
      [] c.check = "overflow"                       -> TRUE

\* the constant expression of the array lengths: 0usize - 1 is an error
next_divisible_by_8_check(item_struct) ==
    IF Overflows(generate_bitfield_size(item_struct))
    THEN {[check |-> "overflow", field |-> 0, left |-> 0, right |-> 0]}
    ELSE {}

(***************************************************************************)
(* The accessors the macro generates.  `offset` is the punctuated list of  *)
(* terms the macro threads through the fields; a generated accessor holds  *)
(* the list as it is when the field is reached.                            *)
(***************************************************************************)
expand_getters_for_field(offset, info) ==
    IF skip_getters(info.config) THEN None ELSE Some(SumSeq(offset))

expand_setters_for_field(offset, info) ==
    IF skip_setters(info.config) THEN None ELSE Some(SumSeq(offset))

\* an expansion that does not add the width of a field to the offset list
expand_getters_and_setters_for_field_no_push(offset, info) ==
    IF skip_getters_and_setters(info.config)
    THEN [offset |-> offset,
          out    |-> [ty |-> info.ty, getters |-> None, setters |-> None]]
    ELSE [offset |-> offset,
          out    |-> [ty      |-> info.ty,
                      getters |-> expand_getters_for_field(offset, info),
                      setters |-> expand_setters_for_field(offset, info)]]

\* an expansion that adds the bit size of Specifier::Bytes to the offset list
expand_getters_and_setters_for_field_push_base(offset, info) ==
    IF skip_getters_and_setters(info.config)
    THEN [offset |-> offset,
          out    |-> [ty |-> info.ty, getters |-> None, setters |-> None]]
    ELSE [offset |-> offset \o <<info.ty.base>>,
          out    |-> [ty      |-> info.ty,
                      getters |-> expand_getters_for_field(offset, info),
                      setters |-> expand_setters_for_field(offset, info)]]

\* the accessors of one field and the offset list left for the next field
expand_getters_and_setters_for_field(offset, info) ==
    IF skip_getters_and_setters(info.config)
    THEN [offset |-> offset,
          out    |-> [ty |-> info.ty, getters |-> None, setters |-> None]]
    ELSE [offset |-> offset \o <<info.ty.BITS>>,
          out    |-> [ty      |-> info.ty,
                      getters |-> expand_getters_for_field(offset, info),
                      setters |-> expand_setters_for_field(offset, info)]]

RECURSIVE expand_fields(_, _, _)
expand_fields(fields, offset, acc) ==
    IF fields = <<>> THEN acc
    ELSE LET r == expand_getters_and_setters_for_field(offset, Head(fields))
         IN  expand_fields(Tail(fields), r.offset, Append(acc, r.out))

\* the accessors of all fields, and the #[bits = N] checks of all fields
expand_getters_and_setters(item_struct) ==
    [accessors   |-> expand_fields(item_struct.fields, <<0>>, <<>>),
     bits_checks |-> UNION {expand_bits_checks_for_field(i, item_struct.fields[i]) :
                                i \in 1 .. Len(item_struct.fields)}]

\* the bit size of <[(); bits] as SpecifierBytes>::Bytes: the smallest of
\* u8, u16, u32, u64 and u128 that holds `bits` bits
SpecifierBytes(bits) ==
    IF bits <= 8 THEN 8
    ELSE IF bits <= 16 THEN 16
    ELSE IF bits <= 32 THEN 32
    ELSE IF bits <= 64 THEN 64
    ELSE 128

\* the Specifier impl of the struct: BITS, the bit size of Bytes and the
\* `next_divisible_by_8` of its conversions, together with the check that
\* comes with it; nothing if the struct is not a specifier
generate_specifier_impl(item_struct, config) ==
    IF ~config.specifier
    THEN [impl |-> None, checks |-> {}]
    ELSE LET bits == generate_bitfield_size(item_struct)
         IN  [impl   |-> Some([BITS  |-> bits,
                               Bytes |-> SpecifierBytes(IF bits > 128 THEN 128 ELSE bits),
                               next_divisible_by_8 |-> next_divisible_by_8(bits)]),
              checks |-> {[check |-> "CheckSpecifierHasAtMost128Bits",
                           field |-> 0, left |-> bits, right |-> 128]}]

\* the fields that the generated Debug impl prints, in the order of the
\* struct; None when the struct does not derive Debug
RECURSIVE generate_debug_fields(_, _)
generate_debug_fields(fields, index) ==
    IF index > Len(fields) THEN <<>>
    ELSE (IF skip_getters(fields[index].config) THEN <<>> ELSE <<index>>)
             \o generate_debug_fields(fields, index + 1)

generate_debug_impl(item_struct, config) ==
    IF config.derive_debug = None THEN None
    ELSE Some(generate_debug_fields(item_struct.fields, 1))

\* BitfieldStruct::expand: everything the macro emits for a struct
expand(item_struct, config) ==
    LET gs == expand_getters_and_setters(item_struct)
        sp == generate_specifier_impl(item_struct, config)
    IN  [struct    |-> generate_struct(item_struct),
         new       |-> generate_constructor(item_struct),
         conv      |-> expand_byte_conversion_impls(item_struct),
         filled    |-> config.filled,
         repr      |-> IF IsSome(config.repr) THEN Unwrap(config.repr) ELSE 0,
         accessors |-> gs.accessors,
         debug     |-> generate_debug_impl(item_struct, config),
         specifier |-> sp.impl,
         checks    |-> generate_check_for_filled(item_struct, config)
                         \cup sp.checks
                         \cup next_divisible_by_8_check(item_struct)
                         \cup expand_optional_bytes_check(item_struct, config)
                         \cup expand_repr_from_impls_and_checks(item_struct, config)
                         \cup gs.bits_checks]

\* the compile errors of an expansion
CompileErrors(e) == {c \in e.checks : CheckFails(c)}

\* Returns an error if the input struct does not have any fields.
ensure_has_fields(item_struct) == item_struct.shape # "Unit"

(***************************************************************************)
(* The bit read/write primitive (modular_bitfield::private).  Bit p of a   *)
(* buffer is bit p % 8 of byte p / 8, counted from the least significant.  *)
(***************************************************************************)
BitAt(bytes, p) == (bytes[(p \div 8) + 1] \div Pow2(p % 8)) % 2

RECURSIVE ReadBits(_, _, _)
ReadBits(bytes, offset, width) ==
    IF width = 0 THEN 0
    ELSE BitAt(bytes, offset) + 2 * ReadBits(bytes, offset + 1, width - 1)

read_specifier(ty, bytes, offset) == ReadBits(bytes, offset, ty.BITS)

\* bit p of the buffer after the write
WrittenBit(ty, bytes, offset, raw, p) ==
    IF offset <= p /\ p < offset + ty.BITS
    THEN (raw \div Pow2(p - offset)) % 2
    ELSE BitAt(bytes, p)

RECURSIVE WrittenByte(_, _, _, _, _, _)
WrittenByte(ty, bytes, offset, raw, k, j) ==
    IF j = 8 THEN 0
    ELSE WrittenBit(ty, bytes, offset, raw, 8 * (k - 1) + j) * Pow2(j)
           + WrittenByte(ty, bytes, offset, raw, k, j + 1)

write_specifier(ty, bytes, offset, raw) ==
    [k \in 1 .. Len(bytes) |->
        IF 8 * k <= offset \/ offset + ty.BITS <= 8 * (k - 1)
        THEN bytes[k]
        ELSE WrittenByte(ty, bytes, offset, raw, k, 0)]

(***************************************************************************)
(* The generated code.  `e` is the expansion of the struct, `bytes` the    *)
(* member of the value the method is called on.                            *)
(***************************************************************************)
\* pub const fn new() -> Self
new(e) == [k \in 1 .. e.new |-> 0]

\* an into_bytes that returns the bytes in the opposite order
into_bytes_reversed(bytes) ==
    [k \in 1 .. Len(bytes) |-> bytes[Len(bytes) + 1 - k]]

\* pub const fn into_bytes(self)
into_bytes(bytes) == bytes

\* pub fn from_bytes(bytes) of a struct with filled = true
from_bytes_filled(e, bytes) == [ok |-> TRUE, bytes |-> bytes]

\* a from_bytes that accepts the first byte value it has to reject
from_bytes_not_filled_gt(e, bytes) ==
    IF bytes[((e.conv.next_divisible_by_8 \div 8) - 1) + 1]
          > Pow2(8 - (e.conv.next_divisible_by_8 - e.conv.size))
    THEN [ok |-> FALSE, bytes |-> bytes]
    ELSE [ok |-> TRUE, bytes |-> bytes]

\* pub fn from_bytes(bytes) of a struct with filled = false
from_bytes_not_filled(e, bytes) ==
    IF bytes[((e.conv.next_divisible_by_8 \div 8) - 1) + 1]
          >= Pow2(8 - (e.conv.next_divisible_by_8 - e.conv.size))
    THEN [ok |-> FALSE, bytes |-> bytes]
    ELSE [ok |-> TRUE, bytes |-> bytes]

from_bytes(e, bytes) ==
    IF e.filled THEN from_bytes_filled(e, bytes) ELSE from_bytes_not_filled(e, bytes)

\* <uN>::to_le_bytes and <uN>::from_le_bytes
RECURSIVE to_le_bytes(_, _)
to_le_bytes(prim, n) ==
    IF n = 0 THEN <<>> ELSE <<prim % 256>> \o to_le_bytes(prim \div 256, n - 1)

RECURSIVE from_le_bytes(_)
from_le_bytes(bytes) ==
    IF bytes = <<>> THEN 0 ELSE Head(bytes) + 256 * from_le_bytes(Tail(bytes))

\* <uN>::to_be_bytes
RECURSIVE to_be_bytes(_, _)
to_be_bytes(prim, n) ==
    IF n = 0 THEN <<>> ELSE to_be_bytes(prim \div 256, n - 1) \o <<prim % 256>>

\* a conversion that stores the primitive in big-endian byte order
from_prim_be(e, prim) == to_be_bytes(prim, e.repr \div 8)

\* impl From<uN> for the struct, impl From<the struct> for uN
from_prim(e, prim) == to_le_bytes(prim, e.repr \div 8)
into_prim(e, bytes) == from_le_bytes(bytes)

\* <uN>::checked_shl on an unsigned integer of `base` bits: None if the
\* shift is not smaller than the bit size, else the low bits shifted up
checked_shl(x, rhs, base) ==
    IF rhs >= base THEN None ELSE Some((x % Pow2(base - rhs)) * Pow2(rhs))

\* <uN>::MAX
MAX(base) == Pow2(base) - 1

\* ArrayBytesConversion of [(); size]: the array as a little-endian integer,
\* and the low size / 8 bytes of the integer in little-endian order
array_into_bytes(array) == from_le_bytes(array)
bytes_into_array(size, bytes) == to_le_bytes(bytes, size \div 8)

\* fn into_bytes(value: Self::InOut) -> Result<Self::Bytes, OutOfBounds> of
\* the Specifier impl `s` of the struct
impl_Specifier_into_bytes(s, value) ==
    [ok |-> TRUE, val |-> array_into_bytes(value)]

\* fn from_bytes(bytes: Self::Bytes)
\*     -> Result<Self::InOut, InvalidBitPattern<Self::Bytes>>
impl_Specifier_from_bytes(s, bytes) ==
    LET shl == checked_shl(1, s.BITS, s.Bytes)
        bf_max_value == IF IsSome(shl) THEN Unwrap(shl) ELSE MAX(s.Bytes)
    IN  IF bytes > bf_max_value
        THEN [ok |-> FALSE, invalid_bytes |-> Some(bytes), self |-> None]
        ELSE [ok |-> TRUE, invalid_bytes |-> None,
              self |-> Some(bytes_into_array(s.next_divisible_by_8, bytes))]

\* fn <field>_or_err(&self) -> Result<InOut, InvalidBitPattern<Bytes>>
get_checked(acc, bytes) ==
    LET bf_read == read_specifier(acc.ty, bytes, Unwrap(acc.getters))
    IN  Specifier_from_bytes(acc.ty, bf_read)

\* a set_checked that rejects the greatest value of the width
set_checked_strict(acc, bytes, new_val) ==
    LET bf_base_bits == acc.ty.base
        bf_max_value == Shr(Pow2(bf_base_bits) - 1, bf_base_bits - acc.ty.BITS)
        bf_spec_bits == acc.ty.BITS
        bf_raw_val   == Specifier_into_bytes(acc.ty, new_val)
    IN  IF ~bf_raw_val.ok THEN [ok |-> FALSE, bytes |-> bytes]
        ELSE IF ~(bf_base_bits = bf_spec_bits \/ bf_raw_val.val < bf_max_value)
        THEN [ok |-> FALSE, bytes |-> bytes]
        ELSE [ok    |-> TRUE,
              bytes |-> write_specifier(acc.ty, bytes, Unwrap(acc.setters),
                                        bf_raw_val.val)]

\* a set_checked that writes the value before it checks its bounds
set_checked_writes_first(acc, bytes, new_val) ==
    LET bf_base_bits == acc.ty.base
        bf_max_value == Shr(Pow2(bf_base_bits) - 1, bf_base_bits - acc.ty.BITS)
        bf_spec_bits == acc.ty.BITS
        bf_raw_val   == Specifier_into_bytes(acc.ty, new_val)
        written      == write_specifier(acc.ty, bytes, Unwrap(acc.setters),
                                        bf_raw_val.val)
    IN  IF ~bf_raw_val.ok THEN [ok |-> FALSE, bytes |-> bytes]
        ELSE IF ~(bf_base_bits = bf_spec_bits \/ bf_raw_val.val <= bf_max_value)
        THEN [ok |-> FALSE, bytes |-> written]
        ELSE [ok |-> TRUE, bytes |-> written]

\* fn set_<field>_checked(&mut self, new_val) -> Result<(), OutOfBounds>
set_checked(acc, bytes, new_val) ==
    LET bf_base_bits == acc.ty.base
        bf_max_value == Shr(Pow2(bf_base_bits) - 1, bf_base_bits - acc.ty.BITS)
        bf_spec_bits == acc.ty.BITS
        bf_raw_val   == Specifier_into_bytes(acc.ty, new_val)
    IN  IF ~bf_raw_val.ok THEN [ok |-> FALSE, bytes |-> bytes]
        ELSE IF ~(bf_base_bits = bf_spec_bits \/ bf_raw_val.val <= bf_max_value)
        THEN [ok |-> FALSE, bytes |-> bytes]
        ELSE [ok    |-> TRUE,
              bytes |-> write_specifier(acc.ty, bytes, Unwrap(acc.setters),
                                        bf_raw_val.val)]

\* fn <field>(&self) -> InOut: <field>_or_err().expect(..)
get(acc, bytes) ==
    LET r == get_checked(acc, bytes)
    IN  [panic |-> ~r.ok, val |-> r.val]

\* a set_<field> that drops the error of set_<field>_checked
set_ignores_error(acc, bytes, new_val) ==
    LET r == set_checked(acc, bytes, new_val)
    IN  [panic |-> FALSE, bytes |-> r.bytes]

\* fn set_<field>(&mut self, new_val): set_<field>_checked(new_val).expect(..)
set(acc, bytes, new_val) ==
    LET r == set_checked(acc, bytes, new_val)
    IN  [panic |-> ~r.ok, bytes |-> r.bytes]

\* fn with_<field>(mut self, new_val) -> Self; `bytes` are those of the
\* value moved into the call
with(acc, bytes, new_val) ==
    LET r == set(acc, bytes, new_val)
    IN  [panic |-> r.panic, bytes |-> r.bytes]

\* a with_<field>_checked that returns the value as it was moved in
with_checked_returns_input(acc, bytes, new_val) ==
    LET r == set_checked(acc, bytes, new_val)
    IN  IF ~r.ok THEN [ok |-> FALSE, self |-> None, bytes |-> bytes]
        ELSE [ok |-> TRUE, self |-> Some(bytes), bytes |-> bytes]

\* fn with_<field>_checked(mut self, new_val) -> Result<Self, OutOfBounds>;
\* `self` is the value returned, `bytes` those of the value moved into the
\* call as the call leaves them
with_checked(acc, bytes, new_val) ==
    LET r == set_checked(acc, bytes, new_val)
    IN  IF ~r.ok THEN [ok |-> FALSE, self |-> None, bytes |-> r.bytes]
        ELSE [ok |-> TRUE, self |-> Some(r.bytes), bytes |-> r.bytes]

\* the .field(name, value) calls of the generated Debug::fmt, one for each
\* field of the Debug impl: the value of the field, or the error of its
\* checked getter
RECURSIVE fmt_fields(_, _, _)
fmt_fields(e, bytes, names) ==
    IF names = <<>> THEN <<>>
    ELSE LET r == get_checked(e.accessors[Head(names)], bytes)
         IN  <<[name |-> Head(names), ok |-> r.ok, val |-> r.val]>>
                 \o fmt_fields(e, bytes, Tail(names))

\* a Debug::fmt that prints the fields with their getters, which panic on
\* an invalid bit pattern
fmt_with_getters(e, bytes) ==
    LET fields == fmt_fields(e, bytes, Unwrap(e.debug))
    IN  [panic  |-> \E k \in 1 .. Len(fields) : ~fields[k].ok,
         fields |-> fields]

\* fn fmt(&self, f) of the generated Debug impl
fmt(e, bytes) ==
    [panic |-> FALSE, fields |-> fmt_fields(e, bytes, Unwrap(e.debug))]

(***************************************************************************)
(* The state: the struct and configuration handed to the macro, what the   *)
(* macro made of them, and one value of the generated struct.              *)
(***************************************************************************)
VARIABLES
    item_struct,    \* the input struct: its shape and its fields
    config,         \* the Config of the #[bitfield] attribute
    pc,             \* "attrs", "input", "error", "rejected", "compiled" or
                    \* "panicked"
    e,              \* the expansion of the struct
    self,           \* the `bytes` of the value; None before it is built
    last,           \* the last call: its name, inputs and result
    nops,           \* the number of calls made on the value
    twin            \* the `bytes` of a second value, built as the first;
                    \* where with_<field> is called on the first value,
                    \* set_<field> is called on this one

vars == <<item_struct, config, pc, e, self, last, nops, twin>>

\* a call: the method, the field it belongs to, its argument (a field value
\* or a primitive, a byte array), its result (ok, and a field value, a
\* primitive or the fields that fmt printed, a byte array), and the `bytes`
\* of the value before the call
Call(op, field, arg, input, ok, val, out, before) ==
    [op |-> op, field |-> field, arg |-> arg, input |-> input,
     ok |-> ok, val |-> val, out |-> out, before |-> before]

NoCall == Call("none", 0, 0, <<>>, TRUE, 0, <<>>, None)

NoExpansion ==
    [struct |-> 0, new |-> 0,
     conv |-> [size |-> 0, next_divisible_by_8 |-> 0],
     filled |-> TRUE, repr |-> 0, accessors |-> <<>>, debug |-> None,
     specifier |-> None, checks |-> {}]

(***************************************************************************)
(* The inputs.                                                             *)
(***************************************************************************)
FieldTypes ==
    {SpecifierB(3), SpecifierB(4), SpecifierB(5), SpecifierB(8), SpecifierB(12),
     SpecifierEnum}

SkipOptions == {None} \cup {Some(w) : w \in SkipWhich}

\* a field without attributes, with a #[skip..], with a #[bits = 4], or both
FieldInfos ==
    [ty : FieldTypes, config : [skip : SkipOptions, bits : {None, Some(4)}]]

\* the fields of the structs whose accessors are called
RunTypes ==
    {SpecifierB(4), SpecifierB(8), SpecifierB(12), SpecifierEnum}

RunFieldInfos ==
    [ty : RunTypes, config : [skip : SkipOptions, bits : {None}]]

AttrCount(fields) ==
    Cardinality({i \in 1 .. Len(fields) : IsSome(fields[i].config.skip)})
      + Cardinality({i \in 1 .. Len(fields) : IsSome(fields[i].config.bits)})

FieldLists(infos, attrs) ==
    UNION {{fields \in [1 .. n -> infos] :
                /\ AttrCount(fields) <= attrs
                /\ SumSeq([i \in 1 .. n |-> fields[i].ty.BITS]) <= MaxBits} :
            n \in 1 .. MaxFields}

\* structs with fields, and the three structs without
ItemStructs(infos, attrs) ==
    [shape : {"Named"}, fields : FieldLists(infos, attrs)]
      \cup [shape : {"Unit", "Named", "Unnamed"}, fields : {<<>>}]

Configs ==
    [filled : BOOLEAN, bytes : {None, Some(2)}, repr : {None, Some(8), Some(16)},
     derive_debug : {None}, specifier : {FALSE}]

RunConfigs ==
    [filled : BOOLEAN, bytes : {None}, repr : {None}, derive_debug : {None},
     specifier : {FALSE}]

ReprConfigs ==
    [filled : BOOLEAN, bytes : {None}, repr : {None, Some(8), Some(16)},
     derive_debug : {None}, specifier : {FALSE}]

\* the configurations of the structs that derive Debug
DebugConfigs ==
    [filled : BOOLEAN, bytes : {None}, repr : {None}, derive_debug : {Some(TRUE)},
     specifier : {FALSE}]

\* the configurations of the structs that are field types themselves
\* (specifier = true)
SpecifierConfigs ==
    [filled : BOOLEAN, bytes : {None}, repr : {None}, derive_debug : {None},
     specifier : {TRUE}]

(***************************************************************************)
(* analyse_and_expand: the macro runs on the struct, then the compiler on  *)
(* what it emitted.                                                        *)
(***************************************************************************)
analyse_and_expand ==
    /\ pc = "input"
    /\ IF ~ensure_has_fields(item_struct)
       THEN /\ pc' = "error"
            /\ e' = e
       ELSE /\ e' = expand(item_struct, config)
            /\ pc' = IF CompileErrors(e') = {} THEN "compiled" ELSE "rejected"
    /\ UNCHANGED <<item_struct, config, self, last, nops, twin>>

InitLayout ==
    /\ item_struct \in ItemStructs(FieldInfos, MaxAttrs)
    /\ config \in Configs
    /\ pc = "input"
    /\ e = NoExpansion
    /\ self = None
    /\ last = NoCall
    /\ nops = 0
    /\ twin = None

NextLayout == analyse_and_expand

SpecLayout == InitLayout /\ [][NextLayout]_vars

(***************************************************************************)
(* Calls of the generated code on a value of a struct that compiled.       *)
(***************************************************************************)
\* byte arrays of length n: the last byte from `his`, the others from `los`
Buffers(n, los, his) ==
    {[k \in 1 .. n |-> IF k = n THEN hi ELSE lo] : lo \in los, hi \in his}

\* the values a setter of a field of type ty is called with
SetValues(ty) ==
    {v \in {0, 5, Pow2(ty.BITS) - 1, Pow2(ty.BITS)} : v \in InOut(ty)}

\* the primitives that a struct with #[repr(uN)] is made from
Prims(bits) ==
    IF bits = 8 THEN 0 .. 255
    ELSE {lo + 256 * hi : lo \in 0 .. 255, hi \in {0, 1, 165, 255}}
           \cup {lo + 256 * hi : lo \in {0, 1, 165, 255}, hi \in 0 .. 255}

Built == pc = "compiled" /\ IsSome(self) /\ nops < MaxOps
Unbuilt == pc = "compiled" /\ self = None /\ last.op = "none"

call_new ==
    /\ Unbuilt
    /\ self' = Some(new(e))
    /\ twin' = Some(new(e))
    /\ last' = Call("new", 0, 0, <<>>, TRUE, 0, <<>>, None)
    /\ UNCHANGED <<item_struct, config, pc, e, nops>>

call_from_bytes(his) ==
    /\ Unbuilt
    /\ \E bytes \in Buffers(e.struct, {165}, his) :
           LET r == from_bytes(e, bytes)
           IN  /\ self' = IF r.ok THEN Some(r.bytes) ELSE None
               /\ twin' = IF r.ok THEN Some(r.bytes) ELSE None
               /\ last' = Call("from_bytes", 0, 0, bytes, r.ok, 0, <<>>, None)
    /\ UNCHANGED <<item_struct, config, pc, e, nops>>

call_into_bytes ==
    /\ Built
    /\ self' = None
    /\ twin' = None
    /\ last' = Call("into_bytes", 0, 0, <<>>, TRUE, 0, into_bytes(Unwrap(self)), self)
    /\ nops' = nops + 1
    /\ UNCHANGED <<item_struct, config, pc, e>>

call_from_prim ==
    /\ Unbuilt
    /\ e.repr # 0
    /\ \E prim \in Prims(e.repr) :
           /\ self' = Some(from_prim(e, prim))
           /\ twin' = Some(from_prim(e, prim))
           /\ last' = Call("from_prim", 0, prim, <<>>, TRUE, 0, <<>>, None)
    /\ UNCHANGED <<item_struct, config, pc, e, nops>>

call_into_prim ==
    /\ Built
    /\ e.repr # 0
    /\ self' = None
    /\ twin' = None
    /\ last' = Call("into_prim", 0, 0, <<>>, TRUE, into_prim(e, Unwrap(self)), <<>>, self)
    /\ nops' = nops + 1
    /\ UNCHANGED <<item_struct, config, pc, e>>

Fields == 1 .. Len(e.accessors)

call_get_checked ==
    /\ Built
    /\ \E i \in Fields :
           /\ IsSome(e.accessors[i].getters)
           /\ LET r == get_checked(e.accessors[i], Unwrap(self))
              IN  last' = Call("get_checked", i, 0, <<>>, r.ok, r.val, <<>>, self)
    /\ nops' = nops + 1
    /\ UNCHANGED <<item_struct, config, pc, e, self, twin>>

call_set_checked ==
    /\ Built
    /\ \E i \in Fields :
           /\ IsSome(e.accessors[i].setters)
           /\ \E new_val \in SetValues(e.accessors[i].ty) :
                  LET r == set_checked(e.accessors[i], Unwrap(self), new_val)
                  IN  /\ self' = Some(r.bytes)
                      /\ twin' = Some(set_checked(e.accessors[i], Unwrap(twin), new_val).bytes)
                      /\ last' = Call("set_checked", i, new_val, <<>>, r.ok, 0, <<>>, self)
    /\ nops' = nops + 1
    /\ UNCHANGED <<item_struct, config, pc, e>>

call_get ==
    /\ Built
    /\ \E i \in Fields :
           /\ IsSome(e.accessors[i].getters)
           /\ LET r == get(e.accessors[i], Unwrap(self))
              IN  /\ pc' = IF r.panic THEN "panicked" ELSE pc
                  /\ last' = Call("get", i, 0, <<>>, ~r.panic, r.val, <<>>, self)
    /\ nops' = nops + 1
    /\ UNCHANGED <<item_struct, config, e, self, twin>>

call_set ==
    /\ Built
    /\ \E i \in Fields :
           /\ IsSome(e.accessors[i].setters)
           /\ \E new_val \in SetValues(e.accessors[i].ty) :
                  LET r == set(e.accessors[i], Unwrap(self), new_val)
                  IN  /\ pc' = IF r.panic THEN "panicked" ELSE pc
                      /\ self' = Some(r.bytes)
                      /\ twin' = Some(set(e.accessors[i], Unwrap(twin), new_val).bytes)
                      /\ last' = Call("set", i, new_val, <<>>, ~r.panic, 0, <<>>, self)
    /\ nops' = nops + 1
    /\ UNCHANGED <<item_struct, config, e>>

\* the value is moved into the call; a call that panics drops it
call_with ==
    /\ Built
    /\ \E i \in Fields :
           /\ IsSome(e.accessors[i].setters)
           /\ \E new_val \in SetValues(e.accessors[i].ty) :
                  LET r == with(e.accessors[i], Unwrap(self), new_val)
                  IN  /\ pc' = IF r.panic THEN "panicked" ELSE pc
                      /\ self' = IF r.panic THEN None ELSE Some(r.bytes)
                      /\ twin' = Some(set(e.accessors[i], Unwrap(twin), new_val).bytes)
                      /\ last' = Call("with", i, new_val, <<>>, ~r.panic, 0, r.bytes, self)
    /\ nops' = nops + 1
    /\ UNCHANGED <<item_struct, config, e>>

\* the value is moved into the call; a call that returns an error drops it
call_with_checked ==
    /\ Built
    /\ \E i \in Fields :
           /\ IsSome(e.accessors[i].setters)
           /\ \E new_val \in SetValues(e.accessors[i].ty) :
                  LET r == with_checked(e.accessors[i], Unwrap(self), new_val)
                  IN  /\ self' = r.self
                      /\ twin' = Some(set_checked(e.accessors[i], Unwrap(twin), new_val).bytes)
                      /\ last' = Call("with_checked", i, new_val, <<>>, r.ok, 0, r.bytes, self)
    /\ nops' = nops + 1
    /\ UNCHANGED <<item_struct, config, pc, e>>

call_fmt ==
    /\ Built
    /\ IsSome(e.debug)
    /\ LET r == fmt(e, Unwrap(self))
       IN  /\ pc' = IF r.panic THEN "panicked" ELSE pc
           /\ last' = Call("fmt", 0, 0, <<>>, ~r.panic, r.fields, <<>>, self)
    /\ nops' = nops + 1
    /\ UNCHANGED <<item_struct, config, e, self, twin>>

Init ==
    /\ item_struct \in ItemStructs(RunFieldInfos, MaxSkips)
    /\ config \in RunConfigs
    /\ pc = "input"
    /\ e = NoExpansion
    /\ self = None
    /\ last = NoCall
    /\ nops = 0
    /\ twin = None

\* the last bytes of the arrays that from_bytes is called with
LastBytes == {1, 5, 90, 255}

Next ==
    \/ analyse_and_expand
    \/ call_new
    \/ call_from_bytes(LastBytes)
    \/ call_into_bytes
    \/ call_get_checked
    \/ call_set_checked

Spec == Init /\ [][Next]_vars

(***************************************************************************)
(* The analysis of the attributes of the fields, before the expansion.     *)
(* The structs have fields of type B8, one of which has attributes: up to  *)
(* MaxAttrs, of which one #[skip..] and one #[bits..] at most.             *)
(***************************************************************************)
Attr(path, meta, nested, lit, value) ==
    [path |-> path, meta |-> meta, nested |-> nested, lit |-> lit, value |-> value]

NestedMetas == {"getters", "setters", "other", "lit"}

SkipAttrs ==
    {Attr("skip", "Path", <<>>, "", 0), Attr("skip", "NameValue", <<>>, "Int", 1)}
      \cup UNION {{Attr("skip", "List", nested, "", 0) :
                       nested \in [1 .. n -> NestedMetas]} : n \in 0 .. MaxNested}

BitsAttrs ==
    {Attr("bits", "NameValue", <<>>, "Int", 8), Attr("bits", "NameValue", <<>>, "Str", 0)}

DocAttr == Attr("doc", "NameValue", <<>>, "Str", 0)

\* the lists of up to MaxAttrs attributes with one #[skip..] and one
\* #[bits..] at most: the paths of the attributes, then the attributes
AttrPaths ==
    UNION {{paths \in [1 .. n -> {"skip", "bits", "doc"}] :
                /\ Cardinality({i \in 1 .. n : paths[i] = "skip"}) <= 1
                /\ Cardinality({i \in 1 .. n : paths[i] = "bits"}) <= 1} :
            n \in 0 .. MaxAttrs}

AttrLists ==
    {[i \in 1 .. Len(paths) |->
         CASE paths[i] = "skip" -> skip
           [] paths[i] = "bits" -> bits
           [] OTHER -> DocAttr] :
        paths \in AttrPaths, skip \in SkipAttrs, bits \in BitsAttrs}

\* a struct of n fields, of which field k has the attributes
AttrStruct(n, k, attrs) ==
    [shape  |-> "Named",
     fields |-> [i \in 1 .. n |->
                    [ty     |-> SpecifierB(8),
                     attrs  |-> IF i = k THEN attrs ELSE <<>>,
                     config |-> FieldConfig_default]]]

\* Analyses and extracts the configuration for all bitfield fields.
analyse_config_for_fields ==
    /\ pc = "attrs"
    /\ LET field_config == [i \in 1 .. Len(item_struct.fields) |->
                               extract_field_config(item_struct.fields[i])]
       IN  IF \E i \in 1 .. Len(item_struct.fields) : ~field_config[i].ok
           THEN /\ pc' = "error"
                /\ item_struct' = item_struct
           ELSE /\ pc' = "input"
                /\ item_struct' =
                       [item_struct EXCEPT !.fields =
                           [i \in 1 .. Len(item_struct.fields) |->
                               [item_struct.fields[i] EXCEPT
                                   !.config = field_config[i].val]]]
    /\ UNCHANGED <<config, e, self, last, nops, twin>>

InitAttrs ==
    /\ \E n \in 1 .. MaxFields : \E k \in 1 .. n : \E attrs \in AttrLists :
           item_struct = AttrStruct(n, k, attrs)
    /\ config \in RunConfigs
    /\ pc = "attrs"
    /\ e = NoExpansion
    /\ self = None
    /\ last = NoCall
    /\ nops = 0
    /\ twin = None

NextAttrs ==
    \/ analyse_config_for_fields
    \/ analyse_and_expand

SpecAttrs == InitAttrs /\ [][NextAttrs]_vars

(***************************************************************************)
(* All accessors of the fields, and Debug, on the structs that derive      *)
(* Debug.                                                                  *)
(***************************************************************************)
\* the structs are those of up to MaxFields of these fields, in this order
CallTypes ==
    <<SpecifierB(3), SpecifierB(5), SpecifierB(8), SpecifierEnum>>

CallFieldLists ==
    UNION {{[i \in 1 .. n |-> [ty |-> CallTypes[pick[i]], config |-> configs[i]]] :
                pick \in {p \in [1 .. n -> 1 .. Len(CallTypes)] :
                             \A i \in 1 .. (n - 1) : p[i] < p[i + 1]},
                configs \in {c \in [1 .. n -> [skip : SkipOptions, bits : {None}]] :
                                Cardinality({i \in 1 .. n : IsSome(c[i].skip)})
                                    <= MaxSkips}} :
            n \in 1 .. MaxFields}

\* the last bytes of the arrays that from_bytes is called with
CallLastBytes == {3, 27, 32, 111}

InitCalls ==
    /\ item_struct \in [shape : {"Named"}, fields : CallFieldLists]
    /\ config \in DebugConfigs
    /\ pc = "input"
    /\ e = NoExpansion
    /\ self = None
    /\ last = NoCall
    /\ nops = 0
    /\ twin = None

NextCalls ==
    \/ analyse_and_expand
    \/ call_new
    \/ call_from_bytes(CallLastBytes)
    \/ call_into_bytes
    \/ call_get_checked
    \/ call_set_checked
    \/ call_get
    \/ call_set
    \/ call_with
    \/ call_with_checked
    \/ call_fmt

SpecCalls == InitCalls /\ [][NextCalls]_vars

(***************************************************************************)
(* The conversions of whole values, on every struct without attributes:    *)
(* byte arrays with every last byte, primitives with every low byte.       *)
(***************************************************************************)
InitBytes ==
    /\ item_struct \in ItemStructs(FieldInfos, 0)
    /\ config \in ReprConfigs
    /\ pc = "input"
    /\ e = NoExpansion
    /\ self = None
    /\ last = NoCall
    /\ nops = 0
    /\ twin = None

NextBytes ==
    \/ analyse_and_expand
    \/ call_new
    \/ call_from_bytes(0 .. 255)
    \/ call_into_bytes
    \/ call_from_prim
    \/ call_into_prim

SpecBytes == InitBytes /\ [][NextBytes]_vars

(***************************************************************************)
(* The struct as a field type: the calls of its Specifier impl, on every   *)
(* struct without attributes that has specifier = true.                    *)
(***************************************************************************)
\* whether v is a value of the unsigned integer of `base` bits
FitsIn(v, base) == v \div Pow2(base - 8) < 256

\* the raw values that Specifier::from_bytes is called with: around
\* 2^BITS, and small and large values of Self::Bytes
RawValues(s) ==
    {v \in {0, 1, 255, Pow2(s.BITS) - 1, Pow2(s.BITS), Pow2(s.BITS) + 1,
            2 * Pow2(s.BITS) - 1, Pow2(s.Bytes - 2)} : FitsIn(v, s.Bytes)}

call_Specifier_from_bytes ==
    /\ Unbuilt
    /\ IsSome(e.specifier)
    /\ \E raw \in RawValues(Unwrap(e.specifier)) :
           LET r == impl_Specifier_from_bytes(Unwrap(e.specifier), raw)
           IN  /\ self' = r.self
               /\ twin' = r.self
               /\ last' = Call("Specifier::from_bytes", 0, raw, <<>>, r.ok, 0,
                               <<>>, None)
    /\ UNCHANGED <<item_struct, config, pc, e, nops>>

call_Specifier_into_bytes ==
    /\ Built
    /\ IsSome(e.specifier)
    /\ LET r == impl_Specifier_into_bytes(Unwrap(e.specifier), Unwrap(self))
       IN  last' = Call("Specifier::into_bytes", 0, 0, <<>>, r.ok, r.val, <<>>, self)
    /\ self' = None
    /\ twin' = None
    /\ nops' = nops + 1
    /\ UNCHANGED <<item_struct, config, pc, e>>

InitSpecifier ==
    /\ item_struct \in ItemStructs(FieldInfos, 0)
    /\ config \in SpecifierConfigs
    /\ pc = "input"
    /\ e = NoExpansion
    /\ self = None
    /\ last = NoCall
    /\ nops = 0
    /\ twin = None

NextSpecifier ==
    \/ analyse_and_expand
    \/ call_new
    \/ call_from_bytes(LastBytes)
    \/ call_Specifier_from_bytes
    \/ call_Specifier_into_bytes

SpecSpecifier == InitSpecifier /\ [][NextSpecifier]_vars

(***************************************************************************)
(* The layout of a struct as its specification gives it: the bit size is   *)
(* the sum of the widths, field i begins at the sum of the widths before   *)
(* it, the byte length is the bit size rounded up to bytes.                *)
(***************************************************************************)
Width(i) == item_struct.fields[i].ty.BITS
NumFields == Len(item_struct.fields)
TotalBits == SumSeq([k \in 1 .. NumFields |-> Width(k)])
BitOffset(i) == SumSeq([k \in 1 .. (i - 1) |-> Width(k)])
ByteLength == (TotalBits + 7) \div 8
Expanded == pc \in {"compiled", "rejected"}
HasGetters(i) == IsSome(e.accessors[i].getters)
HasSetters(i) == IsSome(e.accessors[i].setters)

(***************************************************************************)
(* Claims about the layout (SpecLayout).                                   *)
(***************************************************************************)
\* C1: in every struct that compiles, the offset that the getters and the
\* setters of a field hand to read_specifier and write_specifier is the sum
\* of the widths of all fields declared before it, whatever their skip flags.
C1_OffsetIsPrefixSum ==
    pc = "compiled" =>
        \A i \in 1 .. NumFields :
            /\ HasGetters(i) => Unwrap(e.accessors[i].getters) = BitOffset(i)
            /\ HasSetters(i) => Unwrap(e.accessors[i].setters) = BitOffset(i)

\* C8: a struct passes the filled check only if filled is enabled and its
\* bit size is a multiple of 8, or filled is disabled and it is not.
C8_FilledCheck ==
    (/\ Expanded
     /\ <<"CheckTotalSizeMultipleOf8", 0>> \notin {<<c.check, c.field>> : c \in CompileErrors(e)}
     /\ <<"CheckTotalSizeIsNotMultipleOf8", 0>> \notin {<<c.check, c.field>> : c \in CompileErrors(e)})
    => \/ config.filled /\ TotalBits % 8 = 0
       \/ ~config.filled /\ TotalBits % 8 # 0

\* a filled struct of 13 bits, and a struct of 16 bits that is not filled,
\* that break no other rule, are rejected
C8_Witness ==
    /\ pc = "rejected"
    /\ Cardinality(CompileErrors(e)) = 1
    /\ \/ config.filled /\ TotalBits = 13
       \/ ~config.filled /\ TotalBits = 16

\* the rules of a layout that a struct with its configuration breaks: a
\* declared width that is not the width of the field's type, the filled
\* policy, a byte count that is not the byte length, a primitive whose bit
\* width is not the bit size
LayoutViolations ==
    {<<"BitsCheck", i>> : i \in {k \in 1 .. NumFields :
        /\ IsSome(item_struct.fields[k].config.bits)
        /\ Unwrap(item_struct.fields[k].config.bits) # Width(k)}}
    \cup (IF config.filled /\ TotalBits % 8 # 0
          THEN {<<"CheckTotalSizeMultipleOf8", 0>>} ELSE {})
    \cup (IF ~config.filled /\ TotalBits % 8 = 0
          THEN {<<"CheckTotalSizeIsNotMultipleOf8", 0>>} ELSE {})
    \cup (IF IsSome(config.bytes) /\ Unwrap(config.bytes) # ByteLength
          THEN {<<"assert_eq_size", 0>>} ELSE {})
    \cup (IF IsSome(config.repr) /\ Unwrap(config.repr) # TotalBits
          THEN {<<"IsUNCompatible", 0>>} ELSE {})

Reported == {<<c.check, c.field>> : c \in CompileErrors(e)}

\* C9: every rule of a layout that a struct with fields breaks is reported,
\* whichever other rules it breaks.
C9_AllViolationsReported ==
    (Expanded /\ NumFields > 0) => LayoutViolations \subseteq Reported

\* a struct that breaks the filled policy and the byte count, both reported
C9_Witness ==
    /\ pc = "rejected"
    /\ NumFields > 0
    /\ {<<"CheckTotalSizeMultipleOf8", 0>>, <<"assert_eq_size", 0>>}
           \subseteq (LayoutViolations \cap Reported)

\* C10: the struct definition, new(), from_bytes and into_bytes all use a
\* byte array of (bit size + 7) / 8 bytes, which holds all bits of the
\* struct and has fewer than 8 bits to spare.
C10_ByteLength ==
    (Expanded /\ NumFields > 0) =>
        /\ e.struct = ByteLength
        /\ e.new = ByteLength
        /\ e.conv.next_divisible_by_8 \div 8 = ByteLength
        /\ e.conv.size = TotalBits
        /\ ByteLength * 8 >= TotalBits
        /\ ByteLength * 8 - TotalBits < 8

\* a struct of 13 bits, which is stored in 2 bytes
C10_Witness ==
    /\ pc = "compiled"
    /\ TotalBits = 13
    /\ e.struct = 2
    /\ e.new = 2

\* C14: a struct with #[repr(uN)] compiles, and so has the conversions from
\* and to uN, only if its bit size is N; a struct without #[repr(uN)] has
\* no conversions from and to a primitive.
C14_ReprOnlyForExactWidth ==
    /\ (Expanded /\ NumFields > 0 /\ IsSome(config.repr)) =>
           /\ e.repr = Unwrap(config.repr)
           /\ (pc = "compiled") => TotalBits = e.repr
           /\ (TotalBits # e.repr) => pc = "rejected"
    /\ (Expanded /\ config.repr = None) => e.repr = 0

\* a struct of 13 bits in 2 bytes that is not filled, with #[repr(u16)],
\* breaks no other rule and is rejected
C14_Witness ==
    /\ pc = "rejected"
    /\ config.repr = Some(16)
    /\ ~config.filled
    /\ TotalBits = 13
    /\ Reported = {<<"IsUNCompatible", 0>>}

\* C16: in every struct that compiles, the bits that a getter reads and a
\* setter writes, from the offset it was generated with over the width of
\* its field, lie within the bit size of the struct, and so within its
\* bytes.
C16_AccessWithinFields ==
    pc = "compiled" =>
        \A i \in 1 .. NumFields :
            /\ HasGetters(i) =>
                   /\ Unwrap(e.accessors[i].getters) + Width(i) <= TotalBits
                   /\ Unwrap(e.accessors[i].getters) + Width(i) <= e.struct * 8
            /\ HasSetters(i) =>
                   /\ Unwrap(e.accessors[i].setters) + Width(i) <= TotalBits
                   /\ Unwrap(e.accessors[i].setters) + Width(i) <= e.struct * 8

\* the last field of a struct that is not filled ends at the last bit of
\* the fields, below the last bit of the bytes
C16_Witness ==
    /\ pc = "compiled"
    /\ ~config.filled
    /\ NumFields = MaxFields
    /\ HasGetters(NumFields)
    /\ HasSetters(NumFields)
    /\ Unwrap(e.accessors[NumFields].setters) + Width(NumFields) = TotalBits
    /\ Unwrap(e.accessors[NumFields].getters) > 8
    /\ TotalBits < e.struct * 8

\* C18: for every struct without fields (a unit struct, a struct with an
\* empty brace list, a struct with an empty tuple list) the analysis returns
\* an error and nothing is expanded.
C18_NoFieldsIsAnError ==
    (pc # "input" /\ NumFields = 0) =>
        /\ pc = "error"
        /\ e = NoExpansion

(***************************************************************************)
(* Claims about the accessors (Spec).                                      *)
(***************************************************************************)
Bytes == Unwrap(self)
Before == Unwrap(last.before)
Ty(i) == e.accessors[i].ty
AfterSet == pc = "compiled" /\ last.op = "set_checked"

\* C2: set_checked of a value that fits the width of a field with getters
\* and setters succeeds, get_checked of the field then returns the value,
\* and get_checked of every other field returns what it returned before.
C2_RoundTrip ==
    (/\ AfterSet
     /\ HasGetters(last.field)
     /\ last.arg < Pow2(Ty(last.field).BITS))
    => /\ last.ok
       /\ get_checked(e.accessors[last.field], Bytes) = [ok |-> TRUE, val |-> last.arg]
       /\ \A j \in Fields \ {last.field} :
              HasGetters(j) =>
                  get_checked(e.accessors[j], Bytes) = get_checked(e.accessors[j], Before)

\* a value written to a field that spans two bytes, next to another field
\* whose bits are not all zero
C2_Witness ==
    /\ AfterSet
    /\ HasGetters(last.field)
    /\ last.arg = Pow2(Ty(last.field).BITS) - 1
    /\ Ty(last.field).BITS = 12
    /\ Unwrap(e.accessors[last.field].setters) % 8 = 4
    /\ \E j \in Fields \ {last.field} :
           HasGetters(j) /\ get_checked(e.accessors[j], Before).val # 0

\* C3: a set_checked that succeeds changes no bit outside the bits of its
\* field, which begin at the sum of the widths of the fields before it.
C3_SetKeepsOtherBits ==
    (AfterSet /\ last.ok) =>
        \A p \in 0 .. (8 * Len(Bytes) - 1) :
            (p < BitOffset(last.field) \/ p >= BitOffset(last.field) + Width(last.field))
                => BitAt(Bytes, p) = BitAt(Before, p)

\* the write of a set_checked that succeeds changes no bit outside the range
\* that begins at the offset its setter was generated with
SetKeepsBitsOutsideWrittenRange ==
    (AfterSet /\ last.ok) =>
        LET offset == Unwrap(e.accessors[last.field].setters)
        IN  \A p \in 0 .. (8 * Len(Bytes) - 1) :
                (p < offset \/ p >= offset + Width(last.field))
                    => BitAt(Bytes, p) = BitAt(Before, p)

\* C4: set_checked returns OutOfBounds exactly when the width of the field
\* is smaller than the bit size of the raw type and the value is greater
\* than 2^width - 1; otherwise it writes the value and returns Ok.
C4_OutOfBounds ==
    AfterSet =>
        LET ty == Ty(last.field)
            rejected == ty.BITS < ty.base /\ last.arg > Pow2(ty.BITS) - 1
        IN  /\ last.ok = ~rejected
            /\ rejected => self = last.before
            /\ ~rejected =>
                   read_specifier(ty, Bytes, Unwrap(e.accessors[last.field].setters))
                       = last.arg

\* 16 is rejected by a field of width 4
C4_Witness ==
    /\ AfterSet
    /\ Ty(last.field).BITS = 4
    /\ last.arg = 16
    /\ ~last.ok

\* C6: from_bytes of a filled struct accepts every byte array and
\* into_bytes gives it back; into_bytes returns the bytes of the value.
C6_FilledBytesRoundTrip ==
    /\ (pc = "compiled" /\ last.op = "from_bytes" /\ config.filled) =>
           /\ last.ok
           /\ IsSome(self)
           /\ into_bytes(Bytes) = last.input
    /\ (pc = "compiled" /\ last.op = "into_bytes") => last.out = Before

\* into_bytes of a filled struct after a set_checked changed its bytes
C6_Witness ==
    /\ pc = "compiled"
    /\ config.filled
    /\ last.op = "into_bytes"
    /\ nops = 2
    /\ last.out # new(e)
    /\ last.out \notin Buffers(e.struct, {165}, LastBytes)

(***************************************************************************)
(* Claims about the conversions of whole values (SpecBytes).               *)
(***************************************************************************)
\* the number of bits of the last byte that belong to fields
SignificantBits == 8 - (ByteLength * 8 - TotalBits)

\* C5: from_bytes of a struct that is not filled returns OutOfBounds exactly
\* when a bit of the last byte at or above position
\* 8 - (byte_length * 8 - total_bits) is set, and otherwise makes a value
\* of the bytes as they are.
C5_FromBytesNotFilled ==
    (pc = "compiled" /\ last.op = "from_bytes" /\ ~config.filled) =>
        LET top == last.input[ByteLength]
            undefined == \E p \in SignificantBits .. 7 : (top \div Pow2(p)) % 2 = 1
        IN  /\ last.ok = ~undefined
            /\ last.ok => self = Some(last.input)
            /\ ~last.ok => self = None

\* a struct of 5 bits in 1 byte: 31 is accepted
C5_Witness ==
    /\ pc = "compiled"
    /\ last.op = "from_bytes"
    /\ ~config.filled
    /\ TotalBits = 5
    /\ last.input = <<31>>
    /\ last.ok

\* C7: the conversion from a primitive of N bits stores it in little-endian
\* byte order, and the conversion back to the primitive returns it.
C7_PrimitiveRoundTrip ==
    (pc = "compiled" /\ last.op = "from_prim") =>
        /\ IsSome(self)
        /\ Len(Bytes) = Unwrap(config.repr) \div 8
        /\ \A k \in 1 .. Len(Bytes) : Bytes[k] = (last.arg \div Pow2(8 * (k - 1))) % 256
        /\ into_prim(e, Bytes) = last.arg

\* a primitive of 16 bits whose two bytes differ
C7_Witness ==
    /\ pc = "compiled"
    /\ last.op = "from_prim"
    /\ config.repr = Some(16)
    /\ last.arg = 256 + 2
    /\ Bytes = <<2, 1>>

(***************************************************************************)
(* Claims about all accessors of the fields (SpecCalls).                   *)
(***************************************************************************)
Writes == {"set_checked", "set", "with", "with_checked"}
Widths == [k \in 1 .. NumFields |-> Width(k)]

\* 5 is written to the second of three fields of 3, 5 and 8 bits that all
\* have setters, in a value whose bits are all zero
WritesFiveToSecondField ==
    /\ pc = "compiled"
    /\ Widths = <<3, 5, 8>>
    /\ \A i \in 1 .. NumFields : HasSetters(i)
    /\ last.op \in Writes
    /\ last.ok
    /\ last.field = 2
    /\ last.arg = 5
    /\ Before = new(e)

\* C11 as it is stated: with fields of 3, 5 and 8 bits, writing 5 to the
\* second field of a value whose bits are all zero gives the bytes
\* [0b10100000, 0].
C11_ExampleAsStated ==
    WritesFiveToSecondField => Bytes = <<160, 0>>

\* C11, amended: with fields of 3, 5 and 8 bits, writing 5 to the second
\* field of a value whose bits are all zero gives the bytes [0b00101000, 0]:
\* the field begins at bit 3 of the first byte, counted from the least
\* significant bit.
C11_Example ==
    WritesFiveToSecondField => Bytes = <<40, 0>>

\* 0 was written to another field before 5 was written to the second
C11_Witness ==
    /\ WritesFiveToSecondField
    /\ nops = 2
    /\ last.op = "set_checked"
    /\ BitAt(Bytes, 3) = 1
    /\ BitAt(Bytes, 5) = 1

Acc == e.accessors[last.field]
Called(op) == pc \in {"compiled", "panicked"} /\ last.op = op

\* C12: get returns the value that get_checked returns and panics exactly
\* when get_checked returns an error; set leaves the bytes that set_checked
\* leaves and panics, with the bytes as they were, exactly when set_checked
\* returns OutOfBounds.
C12_UncheckedAccessors ==
    /\ Called("get") =>
           LET r == get_checked(Acc, Before)
           IN  /\ (pc = "panicked") = ~r.ok
               /\ last.ok = r.ok
               /\ r.ok => last.val = r.val
               /\ self = last.before
    /\ Called("set") =>
           LET r == set_checked(Acc, Before, last.arg)
           IN  /\ (pc = "panicked") = ~r.ok
               /\ last.ok = r.ok
               /\ r.ok => Bytes = r.bytes
               /\ ~r.ok => Bytes = Before

\* set panics on a value that is out of bounds, in a value whose bits are
\* not all zero
C12_Witness ==
    /\ Called("set")
    /\ pc = "panicked"
    /\ last.arg = Pow2(Ty(last.field).BITS)
    /\ Bytes # new(e)

\* C13: with_checked returns the value that set_checked makes of a copy of
\* the value it is called on, and OutOfBounds exactly when set_checked does;
\* with returns the same value when set does not panic; and after any chain
\* of calls, the value has the bytes of the twin, on which set was called
\* for every with.
C13_WithIsCopyThenSet ==
    /\ Called("with_checked") =>
           LET r == set_checked(Acc, Before, last.arg)
           IN  /\ last.ok = r.ok
               /\ r.ok => self = Some(r.bytes)
               /\ ~r.ok => self = None
    /\ Called("with") =>
           LET r == set(Acc, Before, last.arg)
           IN  /\ last.ok = ~r.panic
               /\ ~r.panic => self = Some(r.bytes)
    /\ (pc = "compiled" /\ IsSome(self)) => twin = self

\* with_checked writes 5 to the second field of 3, 5 and 8 bits after 5 was
\* written to the first field of the zero value
C13_Witness ==
    /\ Called("with_checked")
    /\ Widths = <<3, 5, 8>>
    /\ nops = 2
    /\ last.field = 2
    /\ last.arg = 5
    /\ Before = <<5, 0>>
    /\ self = Some(<<45, 0>>)
    /\ twin = self

\* the fields that do not skip their getters, in the order of the struct
RECURSIVE FieldsWithGetters(_)
FieldsWithGetters(i) ==
    IF i > NumFields THEN <<>>
    ELSE (IF skip_getters(item_struct.fields[i].config) THEN <<>> ELSE <<i>>)
             \o FieldsWithGetters(i + 1)

\* C15: Debug::fmt does not panic, whatever the bytes of the value; it
\* prints the fields that have getters, in the order of the struct, and no
\* other field; for each it prints what the checked getter returns, the
\* value or the InvalidBitPattern error.
C15_DebugNeverPanics ==
    Called("fmt") =>
        /\ pc = "compiled"
        /\ last.ok
        /\ self = last.before
        /\ [k \in 1 .. Len(last.val) |-> last.val[k].name] = FieldsWithGetters(1)
        /\ \A k \in 1 .. Len(last.val) :
               LET r == get_checked(e.accessors[last.val[k].name], Before)
               IN  /\ last.val[k].ok = r.ok
                   /\ last.val[k].val = r.val

\* a struct with a field that skips its getters and an enum whose bits are
\* no variant: the first is left out, the second printed as an error
C15_Witness ==
    /\ Called("fmt")
    /\ Len(last.val) < NumFields
    /\ \E k \in 1 .. Len(last.val) :
           /\ ~last.val[k].ok
           /\ last.val[k].val = 3

\* C19: when set_checked returns OutOfBounds the value has the bytes it had
\* before the call, and when with_checked returns OutOfBounds the value
\* that was moved into the call still has the bytes it had.
C19_OutOfBoundsWritesNothing ==
    /\ (Called("set_checked") /\ ~last.ok) => self = last.before
    /\ (Called("with_checked") /\ ~last.ok) => last.out = Before

\* with_checked returns OutOfBounds for a field whose bits are not all zero
C19_Witness ==
    /\ Called("with_checked")
    /\ ~last.ok
    /\ last.arg = Pow2(Ty(last.field).BITS)
    /\ read_specifier(Ty(last.field), Before, Unwrap(Acc.setters)) # 0
    /\ last.out = Before

\* C20: a value of a struct that is not filled, made by new or by a
\* from_bytes that succeeded, has no bit set at or above the bit size of
\* the struct after any calls of its setters and with methods, and
\* from_bytes of what into_bytes returns succeeds with the same bytes.
C20_UnusedBitsStayZero ==
    /\ (pc \in {"compiled", "panicked"} /\ ~config.filled /\ IsSome(self)) =>
           /\ \A p \in TotalBits .. (8 * Len(Bytes) - 1) : BitAt(Bytes, p) = 0
           /\ from_bytes(e, into_bytes(Bytes)) = [ok |-> TRUE, bytes |-> Bytes]
    /\ (Called("into_bytes") /\ ~config.filled) =>
           from_bytes(e, last.out) = [ok |-> TRUE, bytes |-> Before]

\* into_bytes after the last field, which ends at the last bit of the
\* fields, was set to its greatest value
C20_Witness ==
    /\ Called("into_bytes")
    /\ ~config.filled
    /\ nops = 2
    /\ HasSetters(NumFields)
    /\ Unwrap(e.accessors[NumFields].setters) + Width(NumFields) = TotalBits
    /\ \A p \in 0 .. (TotalBits - 1) : BitAt(Before, p) = 1
    /\ Before # new(e)
    /\ Before \notin Buffers(e.struct, {165}, CallLastBytes)

(***************************************************************************)
(* Claims about the analysis of the attributes (SpecAttrs).                *)
(***************************************************************************)
\* the #[skip] and #[skip(..)] attributes of field i
SkipSpecs(i) ==
    {item_struct.fields[i].attrs[k] : k \in
        {j \in 1 .. Len(item_struct.fields[i].attrs) :
            /\ item_struct.fields[i].attrs[j].path = "skip"
            /\ item_struct.fields[i].attrs[j].meta \in {"Path", "List"}}}

Named(a) == {a.nested[k] : k \in 1 .. Len(a.nested)}

\* a list that names getters or setters twice, or anything else
Malformed(a) ==
    \/ \E k \in 1 .. Len(a.nested) : a.nested[k] \notin {"getters", "setters"}
    \/ \E j, k \in 1 .. Len(a.nested) : j < k /\ a.nested[j] = a.nested[k]

\* what a skip specification that is not malformed skips
Normalised(a) ==
    IF a.meta = "Path" \/ Named(a) = {} \/ Named(a) = {"getters", "setters"}
    THEN "All"
    ELSE IF Named(a) = {"getters"} THEN "Getters" ELSE "Setters"

Analysed == pc \notin {"attrs", "error"}

\* C17: a field with a malformed skip list makes the analysis an error that
\* leaves no field with a configuration; a skip specification that is not
\* malformed is no error by itself, and the field's configuration skips all
\* accessors for a bare skip, an empty list and a list of getters and
\* setters, the getters for a list of getters, the setters for a list of
\* setters, and the expansion has the accessors that are not skipped.
C17_SkipNormalised ==
    pc # "attrs" =>
        \A i \in 1 .. NumFields : \A a \in SkipSpecs(i) :
            /\ Malformed(a) =>
                   /\ pc = "error"
                   /\ \A j \in 1 .. NumFields :
                          item_struct.fields[j].config = FieldConfig_default
            /\ (~Malformed(a) /\ Len(item_struct.fields[i].attrs) = 1) =>
                   pc # "error"
            /\ (~Malformed(a) /\ Analysed) =>
                   /\ item_struct.fields[i].config.skip = Some(Normalised(a))
                   /\ Expanded =>
                          /\ HasGetters(i) = (Normalised(a) = "Setters")
                          /\ HasSetters(i) = (Normalised(a) = "Getters")

\* #[skip(setters, getters)] on a field of a struct that compiles: the
\* field has no accessors
C17_Witness ==
    /\ pc = "compiled"
    /\ \E i \in 1 .. NumFields :
           /\ \E a \in SkipSpecs(i) : a.nested = <<"setters", "getters">>
           /\ item_struct.fields[i].config.skip = Some("All")
           /\ ~HasGetters(i)
           /\ ~HasSetters(i)

(***************************************************************************)
(* Claims about the struct as a field type (SpecSpecifier).                *)
(***************************************************************************)
\* C21: the from_bytes of the Specifier impl of a struct accepts a raw value
\* exactly if it fits in BITS bits, that is, if it is below 2^BITS (BITS
\* the sum of the widths of the fields), and the into_bytes of the impl
\* never fails.
C21_SpecifierFromBytesFits ==
    /\ last.op = "Specifier::from_bytes" =>
           (last.ok <=> last.arg < Pow2(TotalBits))
    /\ last.op = "Specifier::into_bytes" => last.ok

\* what the generated from_bytes does: a raw value is accepted exactly if
\* it is at most 2^BITS, or if BITS is the bit size of Self::Bytes; an
\* accepted value below 2^BITS becomes the struct with these bytes, and
\* into_bytes gives the little-endian integer of the bytes
SpecifierFromBytesAcceptsUpToPow2 ==
    /\ last.op = "Specifier::from_bytes" =>
           /\ last.ok <=> \/ TotalBits = Unwrap(e.specifier).Bytes
                          \/ last.arg <= Pow2(TotalBits)
           /\ last.ok = IsSome(self)
           /\ (last.ok /\ last.arg < Pow2(TotalBits)) =>
                  from_le_bytes(Unwrap(self)) = last.arg
    /\ last.op = "Specifier::into_bytes" =>
           /\ last.ok
           /\ last.val = from_le_bytes(Unwrap(last.before))

\* a raw value of exactly 2^BITS, in a Self::Bytes of more than BITS bits,
\* was handed to from_bytes
SpecifierFromBytesOfPow2 ==
    /\ last.op = "Specifier::from_bytes"
    /\ TotalBits < Unwrap(e.specifier).Bytes
    /\ last.arg = Pow2(TotalBits)
    /\ last.ok
====
